---- MODULE Spec2Model ----
(***************************************************************************)
(* Model of python/toml_rs/__init__.py: the load / loads wrappers around   *)
(* the native engine and the TOMLDecodeError exception class.              *)
(*                                                                         *)
(* A Python str is a sequence of one-character strings; the index i of     *)
(* Python is the index i + 1 of the sequence.  The character "U+00E9"      *)
(* stands for a code point whose UTF-8 encoding has two bytes.             *)
(***************************************************************************)
EXTENDS Integers, Sequences, FiniteSets, TLC

VARIABLES
    call,       \* the arguments of the last TOMLDecodeError(msg, doc, pos)
    err,        \* the object that construction produced
    pst,        \* the engine's parser state during one decode
    pc,         \* per thread: the line of load / loads it is at
    frame,      \* per thread: the locals of its call
    version     \* the module attribute __version__

vars == <<call, err, pst, pc, frame, version>>

(***************************************************************************)
(* Bounds of the model.                                                    *)
(***************************************************************************)
MaxLen == 3
PosSlack == 1
MaxLines == 3

(***************************************************************************)
(* Characters and text.                                                    *)
(***************************************************************************)
NL == "\n"
EAcute == "U+00E9"
Alphabet == {"a", NL, EAcute}

Utf8Len(ch) == IF ch = EAcute THEN 2 ELSE 1

\* The document of the spec's error-coordinates example: "a = 1\nb = \n".
ExampleDoc == <<"a", " ", "=", " ", "1", NL, "b", " ", "=", " ", NL>>

SeqsUpTo(S, n) == UNION {[1..k -> S] : k \in 0..n}

Docs == SeqsUpTo(Alphabet, MaxLen) \cup {ExampleDoc}
Msgs == {<<"b", "a", "d">>, <<>>}

\* Python's clamping of a slice bound i for a sequence of length n.
SliceIndex(i, n) ==
    IF i < 0 THEN (IF i + n < 0 THEN 0 ELSE i + n)
    ELSE IF i > n THEN n ELSE i

RECURSIVE CountRange(_, _, _, _)
CountRange(doc, ch, lo, hi) ==
    IF lo >= hi THEN 0
    ELSE (IF doc[lo + 1] = ch THEN 1 ELSE 0) + CountRange(doc, ch, lo + 1, hi)

\* str.count(ch, start, end)
count(doc, ch, start, end) ==
    CountRange(doc, ch, SliceIndex(start, Len(doc)), SliceIndex(end, Len(doc)))

NotFound == -1

RECURSIVE RFindRange(_, _, _, _)
RFindRange(doc, ch, lo, hi) ==
    IF lo >= hi THEN NotFound
    ELSE IF doc[hi] = ch THEN hi - 1
    ELSE RFindRange(doc, ch, lo, hi - 1)

\* A variant of rindex that stops one index short of end.
rindexShort(doc, ch, start, end) ==
    RFindRange(doc, ch, SliceIndex(start, Len(doc)), SliceIndex(end, Len(doc)) - 1)

\* str.rindex(ch, start, end); NotFound stands for the ValueError it raises.
rindex(doc, ch, start, end) ==
    RFindRange(doc, ch, SliceIndex(start, Len(doc)), SliceIndex(end, Len(doc)))

\* Decimal text of an integer, as an f-string formats it.
Digit(d) == <<"0", "1", "2", "3", "4", "5", "6", "7", "8", "9">>[d + 1]

RECURSIVE NatToStr(_)
NatToStr(n) ==
    IF n < 10 THEN <<Digit(n)>> ELSE NatToStr(n \div 10) \o <<Digit(n % 10)>>

IntToStr(n) == IF n < 0 THEN <<"-">> \o NatToStr(-n) ELSE NatToStr(n)

(***************************************************************************)
(* TOMLDecodeError.__init__                                                *)
(***************************************************************************)
\* A variant of Lineno that omits the + 1.
LinenoZeroBased(doc, pos) == count(doc, NL, 0, pos)

Lineno(doc, pos) == count(doc, NL, 0, pos) + 1

\* A variant of Colno that counts the newline itself.
ColnoOffByOne(doc, pos, lineno) ==
    IF lineno = 1 THEN pos + 1 ELSE pos - rindex(doc, NL, 0, pos) - 1

Colno(doc, pos, lineno) ==
    IF lineno = 1 THEN pos + 1 ELSE pos - rindex(doc, NL, 0, pos)

EndOfDocument ==
    <<"e", "n", "d", " ", "o", "f", " ", "d", "o", "c", "u", "m", "e", "n", "t">>
LineWord == <<"l", "i", "n", "e", " ">>
ColumnWord == <<",", " ", "c", "o", "l", "u", "m", "n", " ">>
AtOpen == <<" ", "(", "a", "t", " ">>
AtClose == <<")">>

\* A variant of CoordRepr that tests pos > len(doc).
CoordReprStrict(doc, pos, lineno, colno) ==
    IF pos > Len(doc) THEN EndOfDocument
    ELSE LineWord \o IntToStr(lineno) \o ColumnWord \o IntToStr(colno)

CoordRepr(doc, pos, lineno, colno) ==
    IF pos >= Len(doc) THEN EndOfDocument
    ELSE LineWord \o IntToStr(lineno) \o ColumnWord \o IntToStr(colno)

Errmsg(msg, coord_repr) == msg \o AtOpen \o coord_repr \o AtClose

\* A variant of SelfMsg that stores the formatted text.
SelfMsgFormatted(msg, errmsg) == errmsg

SelfMsg(msg, errmsg) == msg

\* The object a call TOMLDecodeError(msg, doc, pos) produces: the exception
\* itself, or the ValueError of rindex leaving __init__.
TOMLDecodeError(msg, doc, pos) ==
    LET lineno == Lineno(doc, pos) IN
    IF lineno # 1 /\ rindex(doc, NL, 0, pos) = NotFound
    THEN [type |-> "ValueError"]
    ELSE LET colno == Colno(doc, pos, lineno)
             errmsg == Errmsg(msg, CoordRepr(doc, pos, lineno, colno))
         IN [type |-> "TOMLDecodeError",
             args |-> <<errmsg>>,
             msg |-> SelfMsg(msg, errmsg),
             doc |-> doc,
             pos |-> pos,
             lineno |-> lineno,
             colno |-> colno]

(***************************************************************************)
(* The native engine behind _loads (python/toml_rs/_toml_rs, whose source  *)
(* is not part of the Python package): lexer, parser and conversion of a   *)
(* line-oriented subset of TOML, following sections 3 and 4 of the design  *)
(* document.  Bare keys, decimal integers and floats, comments, dotted     *)
(* keys, [table] and [[array-of-tables]] headers.                          *)
(***************************************************************************)
KeyChars == {"a", "b", "c", "d", "x", "y"}
DigitChars == {"0", "1", "2", "3", "4", "5", "6", "7", "8", "9"}
PunctChars == {".", "=", "[", "]"}

DuplicateKey == <<"d", "u", "p", "l", "i", "c", "a", "t", "e", " ", "k", "e", "y">>
UnexpectedToken == <<"u", "n", "e", "x", "p", "e", "c", "t", "e", "d", " ", "t", "o", "k", "e", "n">>
InvalidCharacter == <<"i", "n", "v", "a", "l", "i", "d", " ", "c", "h", "a", "r", "a", "c", "t", "e", "r">>
InvalidNumber == <<"i", "n", "v", "a", "l", "i", "d", " ", "n", "u", "m", "b", "e", "r">>
NotATable == <<"n", "o", "t", " ", "a", " ", "t", "a", "b", "l", "e">>

Tok(kind, text, start) == [kind |-> kind, text |-> text, start |-> start]

\* The first index at or after i whose character is not in S (Len + 1 if none).
RECURSIVE RunEnd(_, _, _)
RunEnd(text, i, S) ==
    IF i > Len(text) \/ text[i] \notin S THEN i ELSE RunEnd(text, i + 1, S)

\* The first index at or after i that holds a newline (Len + 1 if none).
RECURSIVE LineEnd(_, _)
LineEnd(text, i) ==
    IF i > Len(text) \/ text[i] = NL THEN i ELSE LineEnd(text, i + 1)

\* The number of UTF-8 bytes of the characters at indexes i .. j - 1.
RECURSIVE Utf8Size(_, _, _)
Utf8Size(text, i, j) ==
    IF i >= j THEN 0 ELSE Utf8Len(text[i]) + Utf8Size(text, i + 1, j)

NumberKind(lit) ==
    LET dots == {k \in 1..Len(lit) : lit[k] = "."}
    IN IF dots = {}
       THEN (IF Len(lit) > 1 /\ lit[1] = "0" THEN "Invalid" ELSE "Integer")
       ELSE IF /\ Cardinality(dots) = 1
               /\ 1 \notin dots
               /\ Len(lit) \notin dots
               /\ ~(lit[1] = "0" /\ 2 \notin dots)
            THEN "Float"
            ELSE "Invalid"

\* The tokens of one line, from character index i (byte offset byte) up to
\* and including its Newline or EOF token.
RECURSIVE LexLine(_, _, _, _)
LexLine(text, i, byte, acc) ==
    IF i > Len(text)
    THEN [ok |-> TRUE, toks |-> Append(acc, Tok("EOF", <<>>, byte)),
          i |-> i, byte |-> byte]
    ELSE LET c == text[i] IN
    IF c = NL
    THEN [ok |-> TRUE, toks |-> Append(acc, Tok("Newline", <<NL>>, byte)),
          i |-> i + 1, byte |-> byte + 1]
    ELSE IF c = " " THEN LexLine(text, i + 1, byte + 1, acc)
    ELSE IF c = "#"
    THEN LET j == LineEnd(text, i)
         IN LexLine(text, j, byte + Utf8Size(text, i, j), acc)
    ELSE IF c \in PunctChars
    THEN LexLine(text, i + 1, byte + 1, Append(acc, Tok("Punct", <<c>>, byte)))
    ELSE IF c \in KeyChars
    THEN LET j == RunEnd(text, i, KeyChars)
         IN LexLine(text, j, byte + (j - i),
                    Append(acc, Tok("BareKey", SubSeq(text, i, j - 1), byte)))
    ELSE IF c \in DigitChars
    THEN LET j == RunEnd(text, i, DigitChars \cup {"."})
             lit == SubSeq(text, i, j - 1)
         IN IF NumberKind(lit) = "Invalid"
            THEN [ok |-> FALSE, msg |-> InvalidNumber, pos |-> byte]
            ELSE LexLine(text, j, byte + (j - i),
                         Append(acc, Tok(NumberKind(lit), lit, byte)))
    ELSE [ok |-> FALSE, msg |-> InvalidCharacter, pos |-> byte]

TokAt(toks, k) == IF k <= Len(toks) THEN toks[k] ELSE toks[Len(toks)]
IsPunct(tok, c) == tok.kind = "Punct" /\ tok.text = <<c>>
IsEnd(tok) == tok.kind \in {"Newline", "EOF"}

\* A key path from token k: BareKey ("." BareKey)*.
RECURSIVE ParseKey(_, _, _, _)
ParseKey(toks, k, segs, starts) ==
    IF TokAt(toks, k).kind # "BareKey"
    THEN [ok |-> FALSE, pos |-> TokAt(toks, k).start]
    ELSE LET segs2 == Append(segs, toks[k].text)
             starts2 == Append(starts, toks[k].start)
         IN IF IsPunct(TokAt(toks, k + 1), ".")
            THEN ParseKey(toks, k + 2, segs2, starts2)
            ELSE [ok |-> TRUE, segs |-> segs2, starts |-> starts2, next |-> k + 1]

Unexpected(tok) == [ok |-> FALSE, msg |-> UnexpectedToken, pos |-> tok.start]

\* The statement one line of tokens holds.
ParseLine(toks) ==
    IF IsEnd(toks[1]) THEN [ok |-> TRUE, form |-> "empty"]
    ELSE IF IsPunct(toks[1], "[") /\ IsPunct(TokAt(toks, 2), "[")
    THEN LET key == ParseKey(toks, 3, <<>>, <<>>) IN
         IF ~key.ok THEN [ok |-> FALSE, msg |-> UnexpectedToken, pos |-> key.pos]
         ELSE IF ~IsPunct(TokAt(toks, key.next), "]")
         THEN Unexpected(TokAt(toks, key.next))
         ELSE IF ~IsPunct(TokAt(toks, key.next + 1), "]")
         THEN Unexpected(TokAt(toks, key.next + 1))
         ELSE IF ~IsEnd(TokAt(toks, key.next + 2))
         THEN Unexpected(TokAt(toks, key.next + 2))
         ELSE [ok |-> TRUE, form |-> "aot", segs |-> key.segs, starts |-> key.starts]
    ELSE IF IsPunct(toks[1], "[")
    THEN LET key == ParseKey(toks, 2, <<>>, <<>>) IN
         IF ~key.ok THEN [ok |-> FALSE, msg |-> UnexpectedToken, pos |-> key.pos]
         ELSE IF ~IsPunct(TokAt(toks, key.next), "]")
         THEN Unexpected(TokAt(toks, key.next))
         ELSE IF ~IsEnd(TokAt(toks, key.next + 1))
         THEN Unexpected(TokAt(toks, key.next + 1))
         ELSE [ok |-> TRUE, form |-> "header", segs |-> key.segs, starts |-> key.starts]
    ELSE IF toks[1].kind = "BareKey"
    THEN LET key == ParseKey(toks, 1, <<>>, <<>>) IN
         IF ~key.ok THEN [ok |-> FALSE, msg |-> UnexpectedToken, pos |-> key.pos]
         ELSE IF ~IsPunct(TokAt(toks, key.next), "=")
         THEN Unexpected(TokAt(toks, key.next))
         ELSE IF TokAt(toks, key.next + 1).kind \notin {"Integer", "Float"}
         THEN Unexpected(TokAt(toks, key.next + 1))
         ELSE IF ~IsEnd(TokAt(toks, key.next + 2))
         THEN Unexpected(TokAt(toks, key.next + 2))
         ELSE [ok |-> TRUE, form |-> "assign", segs |-> key.segs,
               starts |-> key.starts, value |-> toks[key.next + 1]]
    ELSE Unexpected(toks[1])

(***************************************************************************)
(* Table-definition bookkeeping.  defs maps a path (a sequence of key      *)
(* segments from the root table) to its node.                              *)
(***************************************************************************)
NoTok == Tok("None", <<>>, 0)
TableNode(state) == [kind |-> "table", state |-> state, n |-> 0, value |-> NoTok]
ValueNode(tok) == [kind |-> "value", state |-> "Explicit", n |-> 0, value |-> tok]
AotNode(n) == [kind |-> "aot", state |-> "AoTSlot", n |-> n, value |-> NoTok]

\* The segment naming the n-th element of an array of tables.
ElemSeg(n) == <<"#">> \o NatToStr(n)

Put(defs, p, node) ==
    [q \in DOMAIN defs \cup {p} |-> IF q = p THEN node ELSE defs[q]]

NoDefs == [q \in {} |-> TableNode("Implicit")]

\* Walk the segments before the last one, creating ImplicitlyDefined tables.
RECURSIVE Navigate(_, _, _, _, _, _)
Navigate(defs, base, segs, starts, k, viaHeader) ==
    IF k >= Len(segs) THEN [ok |-> TRUE, defs |-> defs, base |-> base]
    ELSE LET p == Append(base, segs[k]) IN
         IF p \notin DOMAIN defs
         THEN Navigate(Put(defs, p, TableNode("Implicit")), p, segs, starts,
                       k + 1, viaHeader)
         ELSE IF defs[p].kind = "table"
         THEN Navigate(defs, p, segs, starts, k + 1, viaHeader)
         ELSE IF defs[p].kind = "aot" /\ viaHeader
         THEN Navigate(defs, Append(p, ElemSeg(defs[p].n)), segs, starts,
                       k + 1, viaHeader)
         ELSE [ok |-> FALSE, msg |-> NotATable, pos |-> starts[k]]

\* The path a statement defines, given where its prefix led.
Target(nav, stmt) == Append(nav.base, stmt.segs[Len(stmt.segs)])

Conflict(stmt) ==
    [ok |-> FALSE, msg |-> DuplicateKey, pos |-> stmt.starts[Len(stmt.starts)]]

\* A variant of DefineAssign that overwrites an existing key.
DefineAssignOverwrite(defs, cur, stmt) ==
    LET nav == Navigate(defs, cur, stmt.segs, stmt.starts, 1, FALSE) IN
    IF ~nav.ok THEN nav
    ELSE [ok |-> TRUE, cur |-> cur,
          defs |-> Put(nav.defs, Target(nav, stmt), ValueNode(stmt.value))]

\* key = value
DefineAssign(defs, cur, stmt) ==
    LET nav == Navigate(defs, cur, stmt.segs, stmt.starts, 1, FALSE) IN
    IF ~nav.ok THEN nav
    ELSE LET p == Target(nav, stmt) IN
         IF p \in DOMAIN nav.defs THEN Conflict(stmt)
         ELSE [ok |-> TRUE, cur |-> cur,
               defs |-> Put(nav.defs, p, ValueNode(stmt.value))]

\* [table]
DefineHeader(defs, cur, stmt) ==
    LET nav == Navigate(defs, <<>>, stmt.segs, stmt.starts, 1, TRUE) IN
    IF ~nav.ok THEN nav
    ELSE LET p == Target(nav, stmt) IN
         IF \/ p \notin DOMAIN nav.defs
            \/ (nav.defs[p].kind = "table" /\ nav.defs[p].state = "Implicit")
         THEN [ok |-> TRUE, cur |-> p,
               defs |-> Put(nav.defs, p, TableNode("Explicit"))]
         ELSE Conflict(stmt)

\* [[array of tables]]
DefineAot(defs, cur, stmt) ==
    LET nav == Navigate(defs, <<>>, stmt.segs, stmt.starts, 1, TRUE) IN
    IF ~nav.ok THEN nav
    ELSE LET p == Target(nav, stmt)
             n == IF p \in DOMAIN nav.defs THEN nav.defs[p].n + 1 ELSE 1
             elem == Append(p, ElemSeg(n))
         IN IF p \in DOMAIN nav.defs /\ nav.defs[p].kind # "aot"
            THEN Conflict(stmt)
            ELSE [ok |-> TRUE, cur |-> elem,
                  defs |-> Put(Put(nav.defs, p, AotNode(n)), elem,
                               TableNode("Explicit"))]

Define(defs, cur, stmt) ==
    CASE stmt.form = "empty" -> [ok |-> TRUE, cur |-> cur, defs |-> defs]
      [] stmt.form = "assign" -> DefineAssign(defs, cur, stmt)
      [] stmt.form = "header" -> DefineHeader(defs, cur, stmt)
      [] stmt.form = "aot" -> DefineAot(defs, cur, stmt)

(***************************************************************************)
(* Conversion to native values and the float hook.                         *)
(***************************************************************************)
DigitValue(c) == CHOOSE d \in 0..9 : Digit(d) = c

RECURSIVE StrToNat(_)
StrToNat(lit) ==
    IF lit = <<>> THEN 0
    ELSE 10 * StrToNat(SubSeq(lit, 1, Len(lit) - 1)) + DigitValue(lit[Len(lit)])

RECURSIVE Gcd(_, _)
Gcd(m, n) == IF n = 0 THEN m ELSE Gcd(n, m % n)

RECURSIVE Pow10(_)
Pow10(k) == IF k = 0 THEN 1 ELSE 10 * Pow10(k - 1)

\* The number a decimal float literal denotes, as a reduced fraction.
DecimalValue(lit) ==
    LET dot == CHOOSE k \in 1..Len(lit) : lit[k] = "."
        num == StrToNat(SubSeq(lit, 1, dot - 1) \o SubSeq(lit, dot + 1, Len(lit)))
        den == Pow10(Len(lit) - dot)
        g == Gcd(num, den)
    IN <<num \div g, den \div g>>

\* The hooks a caller passes: the host float constructor and lambda s: s.
Hooks == {"float", "identity"}

ApplyHook(hook, lit) ==
    IF hook = "float" THEN [type |-> "float", v |-> DecimalValue(lit)]
    ELSE [type |-> "str", v |-> lit]

NativeOf(node, hook) ==
    CASE node.kind = "table" -> [type |-> "dict", v |-> <<>>]
      [] node.kind = "aot" -> [type |-> "list", v |-> <<node.n>>]
      [] node.kind = "value" /\ node.value.kind = "Integer" ->
             [type |-> "int", v |-> <<StrToNat(node.value.text)>>]
      [] node.kind = "value" /\ node.value.kind = "Float" ->
             ApplyHook(hook, node.value.text)

\* The decoded tree: each path of the root table with its native value.
Convert(defs, hook) == [p \in DOMAIN defs |-> NativeOf(defs[p], hook)]

(***************************************************************************)
(* One decode: a parser state stepped one line at a time.                  *)
(***************************************************************************)
NoOutcome == [kind |-> "none"]

InitParser(doc, hook) ==
    [status |-> "parsing", doc |-> doc, hook |-> hook, i |-> 1, byte |-> 0,
     cur |-> <<>>, defs |-> NoDefs, outcome |-> NoOutcome]

Fail(st, e) ==
    [st EXCEPT !.status = "error",
                !.outcome = [kind |-> "raise",
                             exc |-> TOMLDecodeError(e.msg, st.doc, e.pos)]]

Finish(st) ==
    [st EXCEPT !.status = "ok",
                !.outcome = [kind |-> "return",
                             value |-> Convert(st.defs, st.hook)]]

Step(st) ==
    IF st.i > Len(st.doc) THEN Finish(st)
    ELSE LET lex == LexLine(st.doc, st.i, st.byte, <<>>) IN
         IF ~lex.ok THEN Fail(st, lex)
         ELSE LET stmt == ParseLine(lex.toks) IN
              IF ~stmt.ok THEN Fail(st, stmt)
              ELSE LET d == Define(st.defs, st.cur, stmt) IN
                   IF ~d.ok THEN Fail(st, d)
                   ELSE [st EXCEPT !.i = lex.i, !.byte = lex.byte,
                                    !.cur = d.cur, !.defs = d.defs]

RECURSIVE Run(_)
Run(st) == IF st.status = "parsing" THEN Run(Step(st)) ELSE st

\* _loads(s, parse_float=hook): the returned tree or the raised exception.
_loads(s, hook) == Run(InitParser(s, hook)).outcome

(***************************************************************************)
(* Python objects, UTF-8 and the inputs of load / loads.                   *)
(***************************************************************************)
StrObj(text) == [type |-> "str", v |-> text]
BytesObj(bs) == [type |-> "bytes", v |-> bs]
IntObj == [type |-> "int", v |-> <<>>]
None == [type |-> "NoneType", v |-> <<>>]

Ascii ==
    (NL :> 10) @@ (" " :> 32) @@ ("#" :> 35) @@ ("." :> 46) @@ ("=" :> 61)
    @@ ("[" :> 91) @@ ("]" :> 93)
    @@ ("0" :> 48) @@ ("1" :> 49) @@ ("2" :> 50) @@ ("3" :> 51) @@ ("4" :> 52)
    @@ ("5" :> 53) @@ ("6" :> 54) @@ ("7" :> 55) @@ ("8" :> 56) @@ ("9" :> 57)
    @@ ("a" :> 97) @@ ("b" :> 98) @@ ("c" :> 99) @@ ("d" :> 100)
    @@ ("x" :> 120) @@ ("y" :> 121)

\* The character of a code point (code points of the model's characters).
CodePointChar(cp) ==
    IF cp = 233 THEN EAcute ELSE CHOOSE c \in DOMAIN Ascii : Ascii[c] = cp

CharBytes(c) == IF c = EAcute THEN <<195, 169>> ELSE <<Ascii[c]>>

\* str.encode("utf-8"): what a binary file holding the text contains.
RECURSIVE Utf8Encode(_)
Utf8Encode(text) ==
    IF text = <<>> THEN <<>> ELSE CharBytes(Head(text)) \o Utf8Encode(Tail(text))

\* bytes.decode("utf-8", errors="ignore")
RECURSIVE decodeIgnore(_)
decodeIgnore(bs) ==
    IF bs = <<>> THEN [ok |-> TRUE, text |-> <<>>]
    ELSE IF bs[1] < 128
    THEN [ok |-> TRUE,
          text |-> <<CodePointChar(bs[1])>> \o decodeIgnore(Tail(bs)).text]
    ELSE IF /\ bs[1] \in 194..223
            /\ Len(bs) >= 2
            /\ bs[2] \in 128..191
    THEN [ok |-> TRUE,
          text |-> <<CodePointChar((bs[1] - 192) * 64 + (bs[2] - 128))>>
                       \o decodeIgnore(SubSeq(bs, 3, Len(bs))).text]
    ELSE decodeIgnore(Tail(bs))

\* bytes.decode("utf-8") for one- and two-byte sequences; ok = FALSE stands
\* for UnicodeDecodeError.
RECURSIVE decode(_)
decode(bs) ==
    IF bs = <<>> THEN [ok |-> TRUE, text |-> <<>>]
    ELSE IF bs[1] < 128
    THEN LET rest == decode(Tail(bs))
         IN IF rest.ok
            THEN [ok |-> TRUE, text |-> <<CodePointChar(bs[1])>> \o rest.text]
            ELSE rest
    ELSE IF /\ bs[1] \in 194..223
            /\ Len(bs) >= 2
            /\ bs[2] \in 128..191
    THEN LET rest == decode(SubSeq(bs, 3, Len(bs)))
         IN IF rest.ok
            THEN [ok |-> TRUE,
                  text |-> <<CodePointChar((bs[1] - 192) * 64 + (bs[2] - 128))>>
                               \o rest.text]
            ELSE rest
    ELSE [ok |-> FALSE, text |-> <<>>]

FloatDoc == <<"a", " ", "=", " ", "3", ".", "1", "4">>
DupDoc == <<"a", " ", "=", " ", "1", "\n", "a", " ", "=", " ", "2">>
CommentDoc == <<"#", EAcute, NL>> \o DupDoc

CallDocs == {FloatDoc, DupDoc, ExampleDoc, CommentDoc}

\* File contents that are not UTF-8: a lone continuation byte, a truncated
\* two-byte sequence, a lead byte followed by a non-continuation byte.
InvalidBytes ==
    {<<169>>, <<97, 195>>, <<195, 97>>, Utf8Encode(FloatDoc) \o <<255>>}

\* What fp.read() returns: the bytes of a binary file, or the str of a file
\* opened in text mode.
Handles ==
    {[data |-> BytesObj(Utf8Encode(d))] : d \in CallDocs}
        \cup {[data |-> BytesObj(bs)] : bs \in InvalidBytes}
        \cup {[data |-> StrObj(FloatDoc)], [data |-> None]}

LoadsArgs ==
    {StrObj(d) : d \in CallDocs} \cup {BytesObj(Utf8Encode(FloatDoc)), IntObj}

\* parse_float as the caller gives it; "omitted" takes the default, float.
HookArgs == Hooks \cup {"omitted"}

ParseFloatParam(arg) == IF arg = "omitted" THEN "float" ELSE arg

Threads == {"t1", "t2"}

ImportedVersion == "_version"

\* The message of line 26, up to its example of a correct open call.
BinaryModeMessage == <<"File must be opened in binary mode">>

ExpectedStrMessage(obj) == <<"Expected str object, not '", obj.type, "'">>

TypeError(msg) == [kind |-> "raise", exc |-> [type |-> "TypeError", msg |-> msg]]

UnicodeDecodeError == [kind |-> "raise", exc |-> [type |-> "UnicodeDecodeError"]]

NoFrame ==
    [fn |-> "none", arg |-> None, pfarg |-> "omitted", parse_float |-> "float",
     b |-> None, s |-> None, reads |-> 0, engine_calls |-> 0,
     engine_s |-> None, engine_hook |-> "none", engine_out |-> NoOutcome,
     result |-> NoOutcome]

\* Whether b.decode exists (line 23 raises AttributeError otherwise).
HasDecode(obj) == obj.type = "bytes"

\* A variant of IsInstanceStr that also accepts bytes.
IsInstanceStrOrBytes(obj) == obj.type \in {"str", "bytes"}

\* isinstance(s, str)
IsInstanceStr(obj) == obj.type = "str"

\* A variant of EngineArg that reads a buffer shared by all calls.
EngineArgShared(t) ==
    LET others == {u \in Threads \ {t} : frame[u].s.type = "str"}
    IN IF others = {} THEN frame[t].s.v
       ELSE frame[CHOOSE u \in others : TRUE].s.v

\* The s of `_loads(s, parse_float=parse_float)`.
EngineArg(t) == frame[t].s.v

\* A variant of EngineHook that drops the caller's hook.
EngineHookDefault(t) == "float"

\* The parse_float of `_loads(s, parse_float=parse_float)`.
EngineHook(t) == frame[t].parse_float

\* `return _loads(...)`: the engine's tree, or its exception propagating.
ReturnValue(out) == out

(***************************************************************************)
(* load and loads, one action per line, for each calling thread.           *)
(***************************************************************************)
IdleParser == [InitParser(<<>>, "float") EXCEPT !.status = "idle"]
NoCall == [made |-> FALSE]
NoErr == [type |-> "None"]

Init ==
    /\ call = NoCall
    /\ err = NoErr
    /\ pst = IdleParser
    /\ pc = [t \in Threads |-> "idle"]
    /\ frame = [t \in Threads |-> NoFrame]
    /\ version = ImportedVersion

CallLoad(t) ==
    /\ pc[t] = "idle"
    /\ \E fp \in Handles, pf \in HookArgs :
           frame' = [frame EXCEPT ![t] =
                        [NoFrame EXCEPT !.fn = "load", !.arg = fp, !.pfarg = pf,
                                        !.parse_float = ParseFloatParam(pf)]]
    /\ pc' = [pc EXCEPT ![t] = "load_21"]
    /\ UNCHANGED <<call, err, pst, version>>

\* b = fp.read()
LoadRead(t) ==
    /\ pc[t] = "load_21"
    /\ frame' = [frame EXCEPT ![t].b = frame[t].arg.data,
                              ![t].reads = frame[t].reads + 1]
    /\ pc' = [pc EXCEPT ![t] = "load_23"]
    /\ UNCHANGED <<call, err, pst, version>>

\* s = b.decode("utf-8"), AttributeError turned into TypeError
LoadDecode(t) ==
    /\ pc[t] = "load_23"
    /\ LET b == frame[t].b IN
       IF ~HasDecode(b)
       THEN /\ frame' = [frame EXCEPT ![t].result = TypeError(BinaryModeMessage)]
            /\ pc' = [pc EXCEPT ![t] = "done"]
       ELSE IF ~decode(b.v).ok
       THEN /\ frame' = [frame EXCEPT ![t].result = UnicodeDecodeError]
            /\ pc' = [pc EXCEPT ![t] = "done"]
       ELSE /\ frame' = [frame EXCEPT ![t].s = StrObj(decode(b.v).text)]
            /\ pc' = [pc EXCEPT ![t] = "load_29"]
    /\ UNCHANGED <<call, err, pst, version>>

CallEngine(t) ==
    LET out == _loads(EngineArg(t), EngineHook(t))
    IN frame' = [frame EXCEPT ![t].engine_calls = frame[t].engine_calls + 1,
                              ![t].engine_s = StrObj(EngineArg(t)),
                              ![t].engine_hook = EngineHook(t),
                              ![t].engine_out = out,
                              ![t].result = ReturnValue(out)]

\* return _loads(s, parse_float=parse_float)
LoadEngine(t) ==
    /\ pc[t] = "load_29"
    /\ CallEngine(t)
    /\ pc' = [pc EXCEPT ![t] = "done"]
    /\ UNCHANGED <<call, err, pst, version>>

CallLoads(t) ==
    /\ pc[t] = "idle"
    /\ \E s \in LoadsArgs, pf \in HookArgs :
           frame' = [frame EXCEPT ![t] =
                        [NoFrame EXCEPT !.fn = "loads", !.arg = s, !.s = s,
                                        !.pfarg = pf,
                                        !.parse_float = ParseFloatParam(pf)]]
    /\ pc' = [pc EXCEPT ![t] = "loads_33"]
    /\ UNCHANGED <<call, err, pst, version>>

\* if not isinstance(s, str): raise TypeError(...)
LoadsCheck(t) ==
    /\ pc[t] = "loads_33"
    /\ IF ~IsInstanceStr(frame[t].s)
       THEN /\ frame' = [frame EXCEPT
                            ![t].result = TypeError(ExpectedStrMessage(frame[t].s))]
            /\ pc' = [pc EXCEPT ![t] = "done"]
       ELSE /\ pc' = [pc EXCEPT ![t] = "loads_35"]
            /\ UNCHANGED frame
    /\ UNCHANGED <<call, err, pst, version>>

\* return _loads(s, parse_float=parse_float)
LoadsEngine(t) ==
    /\ pc[t] = "loads_35"
    /\ CallEngine(t)
    /\ pc' = [pc EXCEPT ![t] = "done"]
    /\ UNCHANGED <<call, err, pst, version>>

\* The caller takes the result; the frame is gone.
Return(t) ==
    /\ pc[t] = "done"
    /\ pc' = [pc EXCEPT ![t] = "idle"]
    /\ frame' = [frame EXCEPT ![t] = NoFrame]
    /\ UNCHANGED <<call, err, pst, version>>

Next ==
    \E t \in Threads :
        \/ CallLoad(t)
        \/ LoadRead(t)
        \/ LoadDecode(t)
        \/ LoadEngine(t)
        \/ CallLoads(t)
        \/ LoadsCheck(t)
        \/ LoadsEngine(t)
        \/ Return(t)

Spec == Init /\ [][Next]_vars

(***************************************************************************)
(* Construction of the exception from any message, document and offset.    *)
(***************************************************************************)
InitErr == Init

Raise ==
    /\ ~call.made
    /\ \E msg \in Msgs, doc \in Docs :
           \E pos \in (0 - PosSlack)..(Len(doc) + PosSlack) :
               /\ call' = [made |-> TRUE, msg |-> msg, doc |-> doc, pos |-> pos]
               /\ err' = TOMLDecodeError(msg, doc, pos)
    /\ UNCHANGED <<pst, pc, frame, version>>

NextErr == Raise

SpecErr == InitErr /\ [][NextErr]_vars

(***************************************************************************)
(* One decode by the engine, a line per step.                              *)
(***************************************************************************)
Lines ==
    {<<"a", " ", "=", " ", "1">>, <<"b", " ", "=", " ", "1">>, <<"a", ".", "b", " ", "=", " ", "1">>, <<"[", "a", "]">>, <<"[", "a", ".", "b", "]">>, <<"[", "[", "a", "]", "]">>}

RECURSIVE Join(_)
Join(ls) ==
    IF ls = <<>> THEN <<>>
    ELSE IF Len(ls) = 1 THEN ls[1]
    ELSE ls[1] \o <<NL>> \o Join(Tail(ls))

ParseDocs == {Join(ls) : ls \in SeqsUpTo(Lines, MaxLines)} \cup CallDocs

InitParse ==
    /\ call = NoCall
    /\ err = NoErr
    /\ pst \in {InitParser(d, "float") : d \in ParseDocs}
    /\ pc = [t \in Threads |-> "idle"]
    /\ frame = [t \in Threads |-> NoFrame]
    /\ version = ImportedVersion

ParseStatement ==
    /\ pst.status = "parsing"
    /\ pst.i <= Len(pst.doc)
    /\ pst' = Step(pst)
    /\ UNCHANGED <<call, err, pc, frame, version>>

ParseEnd ==
    /\ pst.status = "parsing"
    /\ pst.i > Len(pst.doc)
    /\ pst' = Step(pst)
    /\ UNCHANGED <<call, err, pc, frame, version>>

NextParse == ParseStatement \/ ParseEnd

SpecParse == InitParse /\ [][NextParse]_vars

(***************************************************************************)
(* Properties of the constructed exception.                                *)
(***************************************************************************)
InRange == call.made /\ 0 <= call.pos /\ call.pos <= Len(call.doc)

IsDecodeError == call.made /\ err.type = "TOMLDecodeError"

\* Python indexes below pos that hold a newline (pos within the document).
NewlinesBelow(doc, pos) == {i \in 0..(pos - 1) : doc[i + 1] = NL}

SetMax(S) == CHOOSE x \in S : \A y \in S : y <= x

Clamp(pos, n) == IF pos > n THEN n ELSE IF pos < 0 THEN 0 ELSE pos

\* The line and column of the character at Python index i, found by walking
\* the document from its start.
RECURSIVE Walk(_, _)
Walk(doc, i) ==
    IF i = 0 THEN <<1, 1>>
    ELSE LET p == Walk(doc, i - 1)
         IN IF doc[i] = NL THEN <<p[1] + 1, 1>> ELSE <<p[1], p[2] + 1>>

\* The number of UTF-8 bytes before the character at Python index i.
RECURSIVE ByteOffset(_, _)
ByteOffset(doc, i) ==
    IF i = 0 THEN 0 ELSE ByteOffset(doc, i - 1) + Utf8Len(doc[i])

\* The column of the character at Python index i, counted in bytes.
ByteCol(doc, i) ==
    LET nls == NewlinesBelow(doc, i)
    IN IF nls = {} THEN ByteOffset(doc, i) + 1
       ELSE ByteOffset(doc, i) - ByteOffset(doc, SetMax(nls))

\* C1: for 0 <= pos <= len(doc), lineno is 1 plus the number of newlines at
\* indexes strictly below pos, and colno is pos + 1 on line 1 and otherwise
\* pos minus the index of the last newline strictly below pos; both are
\* functions of (doc, pos) alone.  For the document "a = 1\nb = \n" every
\* offset after the first newline and up to the second gives lineno 2.
C1_Coordinates ==
    InRange =>
        LET nls == NewlinesBelow(call.doc, call.pos)
        IN /\ err.type = "TOMLDecodeError"
           /\ err.lineno = 1 + Cardinality(nls)
           /\ err.colno = IF nls = {} THEN call.pos + 1
                          ELSE call.pos - SetMax(nls)
           /\ (call.doc = ExampleDoc /\ call.pos > 5 /\ call.pos <= 10)
                  => err.lineno = 2

C1_Witness ==
    /\ IsDecodeError
    /\ call.doc = ExampleDoc
    /\ call.pos = 8
    /\ call.msg # <<>>
    /\ err.lineno = 2
    /\ err.colno = 3

C7_Attributes ==
    IsDecodeError =>
        /\ err.msg = call.msg
        /\ err.doc = call.doc
        /\ err.pos = call.pos
        /\ err.msg # err.args[1]

C7_Witness ==
    /\ IsDecodeError
    /\ call.msg = <<"b", "a", "d">>
    /\ call.doc = <<"a", NL, "a">>
    /\ call.pos = 2
    /\ err.args[1] # <<"b", "a", "d">>

\* C8: the exception's text is the raw message followed by
\* " (at line L, column C)" when pos < len(doc) and by " (at end of document)"
\* when pos >= len(doc); in the latter case lineno and colno are still set.
C8_Text ==
    IsDecodeError =>
        LET n == Len(call.doc)
            nls == NewlinesBelow(call.doc, Clamp(call.pos, n))
        IN IF call.pos < n
           THEN err.args[1] =
                    call.msg
                        \o <<" ", "(", "a", "t", " ", "l", "i", "n", "e", " ">>
                        \o IntToStr(err.lineno)
                        \o <<",", " ", "c", "o", "l", "u", "m", "n", " ">>
                        \o IntToStr(err.colno)
                        \o <<")">>
           ELSE /\ err.args[1] =
                       call.msg
                           \o <<" ", "(", "a", "t", " ", "e", "n", "d", " ",
                                "o", "f", " ", "d", "o", "c", "u", "m", "e",
                                "n", "t", ")">>
                /\ err.lineno = 1 + Cardinality(nls)
                /\ err.colno = IF nls = {} THEN call.pos + 1
                               ELSE call.pos - SetMax(nls)

C8_Witness ==
    /\ IsDecodeError
    /\ call.doc = <<"a", NL, "a">>
    /\ call.pos = 3
    /\ err.lineno = 2
    /\ err.colno = 2
    /\ Len(err.args[1]) = Len(call.msg) + 21

\* C10: for 0 <= pos <= len(doc) the construction never fails, and
\* 1 <= lineno <= 1 + (newlines in doc) and 1 <= colno <= pos + 1.
C10_Total ==
    InRange =>
        /\ err.type = "TOMLDecodeError"
        /\ 1 <= err.lineno
        /\ err.lineno <= 1 + Cardinality(NewlinesBelow(call.doc, Len(call.doc)))
        /\ 1 <= err.colno
        /\ err.colno <= call.pos + 1

C10_Witness ==
    /\ IsDecodeError
    /\ call.doc = <<NL, NL>>
    /\ call.pos = 2
    /\ err.lineno = 3
    /\ err.colno = 1

(***************************************************************************)
(* Properties of load and loads.                                           *)
(***************************************************************************)
Done(t) == pc[t] = "done"

\* C3: the wrappers pass parse_float (float when omitted) to the engine
\* unchanged, call the engine exactly once and return its result unmodified;
\* the float of `a = 3.14` is what the hook returned for the text "3.14".
C3_FloatHook ==
    \A t \in Threads :
        LET f == frame[t] IN
        /\ f.engine_calls <= 1
        /\ (Done(t) /\ f.s.type = "str") => f.engine_calls = 1
        /\ f.engine_calls = 1 =>
               /\ f.engine_hook = (IF f.pfarg = "omitted" THEN "float" ELSE f.pfarg)
               /\ f.result = f.engine_out
               /\ f.engine_s.v = FloatDoc =>
                      /\ f.result.kind = "return"
                      /\ DOMAIN f.result.value = {<<<<"a">>>>}
                      /\ f.pfarg = "identity" =>
                             f.result.value[<<<<"a">>>>] =
                                 [type |-> "str", v |-> <<"3", ".", "1", "4">>]
                      /\ f.pfarg \in {"omitted", "float"} =>
                             f.result.value[<<<<"a">>>>] =
                                 [type |-> "float", v |-> <<157, 50>>]

C3_Witness ==
    \E t \in Threads :
        /\ Done(t)
        /\ frame[t].fn = "load"
        /\ frame[t].pfarg = "identity"
        /\ frame[t].engine_calls = 1
        /\ frame[t].result.kind = "return"
        /\ frame[t].result.value[<<<<"a">>>>].type = "str"

\* C5: load reads the handle exactly once and decodes the bytes as UTF-8
\* before calling the engine with the resulting text; on bytes that are not
\* UTF-8 it fails with the decoding error and never calls the engine.
C5_LoadDecodesFirst ==
    \A t \in Threads :
        LET f == frame[t] IN
        f.fn = "load" =>
            /\ f.reads = (IF pc[t] = "load_21" THEN 0 ELSE 1)
            /\ f.engine_calls = 1 =>
                   /\ f.b.type = "bytes"
                   /\ Utf8Encode(f.engine_s.v) = f.b.v
            /\ (f.b.type = "bytes" /\ f.b.v \in InvalidBytes) =>
                   /\ f.engine_calls = 0
                   /\ pc[t] \in {"load_23", "done"}
                   /\ Done(t) => f.result = UnicodeDecodeError

C5_Witness ==
    \E t \in Threads :
        /\ Done(t)
        /\ frame[t].fn = "load"
        /\ frame[t].b.v = <<97, 195>>
        /\ frame[t].reads = 1
        /\ frame[t].engine_calls = 0
        /\ frame[t].result.exc.type = "UnicodeDecodeError"

\* What a call returns or raises when nothing else runs.
Alone(fn, arg, pfarg) ==
    LET hook == IF pfarg = "omitted" THEN "float" ELSE pfarg IN
    IF fn = "loads"
    THEN (IF arg.type = "str" THEN _loads(arg.v, hook)
          ELSE TypeError(ExpectedStrMessage(arg)))
    ELSE IF arg.data.type # "bytes" THEN TypeError(BinaryModeMessage)
    ELSE IF arg.data.v \in InvalidBytes THEN UnicodeDecodeError
    ELSE _loads(CHOOSE d \in CallDocs : Utf8Encode(d) = arg.data.v, hook)

\* C6: in every interleaving of concurrent calls each call returns or raises
\* what it would if run alone, and __version__ is never written.
C6_CallsIndependent ==
    /\ version = ImportedVersion
    /\ \A t \in Threads :
           Done(t) => frame[t].result = Alone(frame[t].fn, frame[t].arg, frame[t].pfarg)

C6_Witness ==
    /\ \A t \in Threads : Done(t) /\ frame[t].engine_calls = 1
    /\ frame["t1"].fn = "load"
    /\ frame["t2"].fn = "loads"
    /\ frame["t1"].result.kind = "return"
    /\ frame["t2"].result.kind = "raise"

\* C9: loads of a non-str raises TypeError naming the object's type, load of
\* a handle whose read() returns an object without decode raises TypeError
\* asking for binary mode; the engine is not called in either case.
C9_WrongKindRejected ==
    \A t \in Threads :
        LET f == frame[t] IN
        /\ (f.fn = "loads" /\ f.arg.type # "str") =>
               /\ f.engine_calls = 0
               /\ pc[t] \in {"loads_33", "done"}
               /\ Done(t) =>
                      /\ f.result.kind = "raise"
                      /\ f.result.exc.type = "TypeError"
                      /\ f.result.exc.msg[2] = f.arg.type
        /\ (f.fn = "load" /\ f.arg.data.type # "bytes") =>
               /\ f.engine_calls = 0
               /\ pc[t] \in {"load_21", "load_23", "done"}
               /\ Done(t) =>
                      /\ f.result.kind = "raise"
                      /\ f.result.exc.type = "TypeError"
                      /\ f.result.exc.msg = <<"File must be opened in binary mode">>

C9_Witness ==
    /\ Done("t1")
    /\ frame["t1"].fn = "loads"
    /\ frame["t1"].arg.type = "bytes"
    /\ frame["t1"].result.exc.msg[2] = "bytes"
    /\ Done("t2")
    /\ frame["t2"].fn = "load"
    /\ frame["t2"].arg.data.type = "str"
    /\ frame["t2"].result.exc.type = "TypeError"

(***************************************************************************)
(* Properties of the engine's table definitions.                           *)
(***************************************************************************)
\* The path the next line of the decode would define, when that line is a
\* well-formed assignment or table header whose prefix can be walked.
NextTarget(st) ==
    LET lex == LexLine(st.doc, st.i, st.byte, <<>>)
        stmt == ParseLine(lex.toks)
        nav == Navigate(st.defs, IF stmt.form = "assign" THEN st.cur ELSE <<>>,
                        stmt.segs, stmt.starts, 1, stmt.form = "header")
    IN IF /\ st.status = "parsing"
          /\ st.i <= Len(st.doc)
          /\ lex.ok
          /\ stmt.ok
          /\ stmt.form \in {"assign", "header"}
          /\ nav.ok
       THEN {Target(nav, stmt)}
       ELSE {}

ExplicitKeys(st) == {p \in DOMAIN st.defs : st.defs[p].state = "Explicit"}

\* C4: within one decode a key that is ExplicitlyDefined keeps its definition;
\* a later header for it or assignment to it fails the decode with a
\* DecodeError and no table, and for `a = 1\na = 2` the offset is that of the
\* second `a`.
C4_NoRedefinition ==
    [][/\ \A p \in ExplicitKeys(pst) :
              p \in DOMAIN pst'.defs /\ pst'.defs[p] = pst.defs[p]
       /\ NextTarget(pst) \cap ExplicitKeys(pst) # {} =>
              /\ pst'.status = "error"
              /\ pst'.outcome.kind = "raise"
              /\ pst'.outcome.exc.type = "TOMLDecodeError"
       /\ (pst'.doc = DupDoc /\ pst'.status # "parsing") =>
              /\ pst'.status = "error"
              /\ pst'.outcome.exc.pos = 6
              /\ pst'.outcome.exc.doc[pst'.outcome.exc.pos + 1] = "a"
      ]_vars

C4_Witness ==
    /\ pst.status = "error"
    /\ pst.doc = DupDoc
    /\ ExplicitKeys(pst) = {<<<<"a">>>>}
    /\ pst.outcome.exc.pos = 6
    /\ pst.outcome.exc.lineno = 2

====
